---- MODULE Spec2Model ----
(***************************************************************************)
(* Model of src/jpegli_opt.py: the per-file transcode job                  *)
(* (JPEGLIOptimizer.process_single_image), the batch scheduler             *)
(* (JPEGLIOptimizer.process_batch) and the size-evaluation rule.           *)
(*                                                                         *)
(* The file system is a map from paths to contents.  A path is a record    *)
(* [stem, suffix] so that Path.with_suffix is computed, not assumed.  A    *)
(* content records where its bytes come from (of), its size and whose      *)
(* metadata tags it carries (meta), so that "byte-identical" and           *)
(* "metadata restored" are comparisons of contents.                        *)
(***************************************************************************)
EXTENDS Integers, Sequences, FiniteSets, TLC

VARIABLES
    fs,                   \* the directory: path -> content (Absent when no file)
    job,                  \* per input path: the locals of process_single_image and its position
    files,                \* per batch thread: the files handed to process_batch (keys of `futures`)
    batchPc,              \* per batch thread: position of the process_batch thread
    processing,           \* self.processing
    batch_stats,          \* self.batch_stats
    aggregated,           \* per batch thread: futures already yielded by as_completed and aggregated
    progress,             \* per batch thread: values handed to safe_progress, as done-counts
                          \* (value = count/total*100)
    summaries,            \* number of print_summary calls
    enable_resize,        \* self.enable_resize
    enable_min_reduction, \* self.enable_min_reduction
    min_reduction,        \* self.min_reduction
    ev                    \* a pure function applied to drawn inputs (EvalSpec, PredictSpec)

vars == <<fs, job, files, batchPc, processing, batch_stats, aggregated, progress,
          summaries, enable_resize, enable_min_reduction, min_reduction, ev>>

----------------------------------------------------------------------------
(* Bounds of the model *)

\* largest number of files dropped in one behaviour; a file is dropped at most once
MaxFiles == 2

\* largest number of drops that start a process_batch thread
MaxDrops == 2

Threads == 1..MaxDrops

\* os.cpu_count() of the machine
CpuCount == 3

----------------------------------------------------------------------------
(* Paths *)

P(stem, suffix) == [stem |-> stem, suffix |-> suffix]

NoPath == P("", "")

\* tag source of the two date tags exiftool writes on a converted PNG
DateTags == P("", "dates")

\* pathlib.Path.with_suffix: replaces the last suffix only
with_suffix(p, s) == P(p.stem, s)

is_png(p) == p.suffix = ".png"

output_file(p) == IF is_png(p) THEN with_suffix(p, ".jpg") ELSE p

metadata_file(p) == with_suffix(p, ".metadata.jpg")

temp_file(p) == with_suffix(output_file(p), ".tmp.jpg")

png_temp_file(p) == with_suffix(p, ".png_temp.jpg")

resized_file(p) == with_suffix(p, ".resized.jpg")

\* the image files of the directory that a drop may contain: one stem in each
\* of the three accepted extensions
Candidates == {P("a", ".jpg"), P("a", ".jpeg"), P("a", ".png")}

\* a file of the directory that is never dropped and that no job addresses
Bystanders == {P("b", ".jpg")}

Paths ==
    Candidates \cup Bystanders \cup UNION {{output_file(p), metadata_file(p), temp_file(p),
                            png_temp_file(p), resized_file(p)} : p \in Candidates}

----------------------------------------------------------------------------
(* Contents *)

Content(kind, of, size, meta) == [kind |-> kind, of |-> of, size |-> size, meta |-> meta]

Absent == Content("absent", NoPath, 0, NoPath)

\* size in bytes of every image of the directory before the batch
OrigSize == 100

Original(p) == Content("orig", p, OrigSize, p)

exists(f, p) == f[p].kind # "absent"

\* sizes of the file an Encoder run that exits 0 may leave: empty, half the
\* original, within 5% of the original
NewSizes == {0, 50, 96}

\* pixel width of the images of the directory; self.max_width keeps its default
max_width == 2000

ImageWidth(p) == IF p.stem = "a" THEN 4000 ELSE 1000

----------------------------------------------------------------------------
(* Python float arithmetic (IEEE 754 binary64, round to nearest even) on the   *)
(* operands of `reduction`.  A positive double is its 53-bit significand and   *)
(* its exponent, value = (significand / 2^52) * 2^e with the top bit set.  The *)
(* significand is held as six limbs, most significant first: one of 8 bits and *)
(* five of 9 bits, so that every intermediate fits a machine integer.  Sizes   *)
(* up to 2^22 bytes are covered.                                               *)

\* limbs of a significand, and bits of a limb after the first
Limbs == 6

LimbBits == 9

Base == 2 ^ LimbBits

\* the largest shift tried when normalising a quotient
MaxShift == 22

\* least k with a * 2^k >= b, as <<a * 2^k, k>>   (0 < a <= b < 2^MaxShift)
ShiftUp(a, b) ==
    LET k == CHOOSE i \in 0..MaxShift : a * 2 ^ i >= b
    IN  <<a * 2 ^ k, k>>

\* the next n limbs of the quotient r / b (r < b), and the remainder left
DivLimbs(r, b, n) ==
    LET rem[i \in 0..n] == IF i = 0 THEN r ELSE (rem[i - 1] * Base) % b
    IN  <<[i \in 1..n |-> (rem[i - 1] * Base) \div b], rem[n]>>

\* a significand plus one; the first limb may come to 2^8
Inc(m) ==
    [i \in 1..Limbs |->
        IF \A k \in (i + 1)..Limbs : m[k] = Base - 1
        THEN IF m[i] = Base - 1 /\ i > 1 THEN 0 ELSE m[i] + 1
        ELSE m[i]]

\* round to nearest, ties to even: m is the 53-bit significand, guard the next
\* bit, sticky whether anything non-zero follows it
RoundNearestEven(m, guard, sticky, e) ==
    IF guard = 1 /\ (sticky \/ m[Limbs] % 2 = 1)
    THEN LET up == Inc(m)
         IN  IF up[1] = Base \div 2
             THEN [neg |-> FALSE, m |-> [up EXCEPT ![1] = Base \div 4], e |-> e + 1]
             ELSE [neg |-> FALSE, m |-> up, e |-> e]
    ELSE [neg |-> FALSE, m |-> m, e |-> e]

\* float(a) / float(b) for integers 0 < a <= b
FloatDiv(a, b) ==
    LET sh == ShiftUp(a, b)
        top == (sh[1] * (Base \div 4)) \div b
        r1 == (sh[1] * (Base \div 4)) % b
        q == DivLimbs(r1, b, Limbs - 1)
        guard == (2 * q[2]) \div b
        sticky == (2 * q[2]) % b # 0
    IN  RoundNearestEven(<<top>> \o q[1], guard, sticky, 0 - sh[2])

\* m * c, exactly: the low limbs, and in the first place all that is left
MulSmall(m, c) ==
    LET v[i \in 1..Limbs] == m[i] * c + (IF i = Limbs THEN 0 ELSE v[i + 1] \div Base)
    IN  [i \in 1..Limbs |-> IF i = 1 THEN v[1] ELSE v[i] % Base]

\* d * 100 for a positive double d
FloatMul100(d) ==
    LET prod == MulSmall(d.m, 100)
        s == CHOOSE i \in 0..LimbBits : prod[1] \div 2 ^ i \in (Base \div 4)..(Base \div 2 - 1)
        cut == 2 ^ s
        m == [i \in 1..Limbs |->
                IF i = 1 THEN prod[1] \div cut
                ELSE (prod[i - 1] % cut) * (Base \div cut) + prod[i] \div cut]
        dropped == prod[Limbs] % cut
    IN  RoundNearestEven(m, dropped \div (cut \div 2), dropped % (cut \div 2) # 0, d.e + s)

\* the integer part of a double in [0, 256), and whether it has a fraction
IntPart(d) == IF d.e < 0 THEN 0 ELSE d.m[1] \div 2 ^ (LimbBits - 2 - d.e)

HasFrac(d) ==
    \/ d.e < 0
    \/ d.m[1] % 2 ^ (LimbBits - 2 - d.e) # 0
    \/ \E i \in 2..Limbs : d.m[i] # 0

\* d <= t and d < t for a double d in (-inf, 256) and an integer t >= 1
FloatLE(d, t) == d.neg \/ IntPart(d) < t \/ (IntPart(d) = t /\ ~HasFrac(d))

FloatLT(d, t) == d.neg \/ IntPart(d) < t

\* a double that is zero or negative: only its sign matters below
NonPositive == [neg |-> TRUE, m |-> <<>>, e |-> 0]

\* reduction = ((original_size - new_size) / original_size) * 100
reduction(original_size, new_size) ==
    IF new_size >= original_size THEN NonPositive
    ELSE FloatMul100(FloatDiv(original_size - new_size, original_size))

\* the size comparison: should_replace
should_replace(original_size, new_size, gate, threshold) ==
    LET r == reduction(original_size, new_size)
    IN  IF FloatLE(r, 5) THEN FALSE
        ELSE IF gate /\ FloatLT(r, threshold) THEN FALSE
        ELSE TRUE

\* the range of the min_reduction scale, and its default
MinThreshold == 1

MaxThreshold == 50

DefaultThreshold == 15

\* the sizes the size comparison is applied to on its own
EvalOriginals == {100, 1000000}

EvalNews == {50, 71, 94, 95, 96, 120, 700000, 960000}

\* the sizes a file of a batch can have
JobSizes == NewSizes \cup {OrigSize}

\* the size comparison at the sizes and settings a job of a batch can meet
replace_table ==
    [original_size \in JobSizes, new_size \in JobSizes,
     gate \in {FALSE}, threshold \in {DefaultThreshold} |->
        should_replace(original_size, new_size, gate, threshold)]

----------------------------------------------------------------------------
(* The transcode job: process_single_image(file_path), one step per file   *)
(* operation or external tool run.  j is the job's file_path.              *)

NoResult == [original_size |-> 0, new_size |-> 0, replaced |-> FALSE]

IdleJob ==
    [pc |-> "idle", original_size |-> 0, new_size |-> 0, source_file |-> NoPath,
     replaced |-> FALSE, raised |-> FALSE, ts_failed |-> FALSE,
     pre |-> Absent, result |-> NoResult]

Running(j) == job[j].pc \notin {"idle", "queued", "done"}

max_workers == IF CpuCount - 1 > 1 THEN CpuCount - 1 ELSE 1

unlink(f, p) == [f EXCEPT ![p] = Absent]

unlink_if_exists(f, p) == IF exists(f, p) THEN unlink(f, p) ELSE f

copy2(f, src, dst) == [f EXCEPT ![dst] = f[src]]

move(f, src, dst) == [f EXCEPT ![dst] = f[src], ![src] = Absent]

\* what PIL writes when it re-saves the image at path p
Interim(f, p) == Content("interim", f[p].of, f[p].size, NoPath)

\* what cjpegli writes from the source at path p
Encoded(f, p, size) == Content("enc", f[p].of, size, NoPath)

Goto(j, label) == job' = [job EXCEPT ![j].pc = label]

\* a worker of the pool takes the task: the stat() calls, then
\* 1. Metadata Backup (only for JPEG): shutil.copy2; both before the try block
Start(j) ==
    /\ job[j].pc = "queued"
    /\ \E t \in Threads :
          /\ j \in files[t]
          /\ Cardinality({k \in files[t] : Running(k)}) < max_workers
    /\ IF exists(fs, j)
       THEN /\ job' = [job EXCEPT ![j].pc = "prepare",
                                  ![j].original_size = fs[j].size,
                                  ![j].pre = fs[j]]
            /\ fs' = IF is_png(j) THEN fs ELSE copy2(fs, j, metadata_file(j))
       ELSE /\ job' = [job EXCEPT ![j].pc = "done", ![j].raised = TRUE]
            /\ fs' = fs
    /\ UNCHANGED <<files, batchPc, processing, batch_stats, aggregated, progress,
                   summaries, enable_resize, enable_min_reduction, min_reduction, ev>>

\* 2. Analyze, then convert_png_to_temp_jpg or handle_resize
Prepare(j) ==
    /\ job[j].pc = "prepare"
    /\ \/ \* the image cannot be decoded (or is gone)
          /\ Goto(j, "except")
          /\ fs' = fs
       \/ /\ exists(fs, j)
          /\ IF is_png(j)
             THEN /\ fs' = [fs EXCEPT ![png_temp_file(j)] = Interim(fs, j)]
                  /\ job' = [job EXCEPT ![j].pc = "encode",
                                        ![j].source_file = png_temp_file(j)]
             ELSE IF ~enable_resize \/ ImageWidth(j) <= max_width
                  THEN /\ fs' = fs
                       /\ job' = [job EXCEPT ![j].pc = "encode", ![j].source_file = j]
                  ELSE /\ fs' = [fs EXCEPT ![resized_file(j)] = Interim(fs, j)]
                       /\ job' = [job EXCEPT ![j].pc = "encode",
                                             ![j].source_file = resized_file(j)]
    /\ UNCHANGED <<files, batchPc, processing, batch_stats, aggregated, progress,
                   summaries, enable_resize, enable_min_reduction, min_reduction, ev>>

\* 3. Execute cjpegli: subprocess.run(cmd, check=True)
Encode(j) ==
    /\ job[j].pc = "encode"
    /\ \/ \* non-zero exit status: CalledProcessError
          /\ Goto(j, "except")
          /\ fs' = fs
       \/ \* exit status 0 and no output file written
          /\ Goto(j, "evaluate")
          /\ fs' = fs
       \/ \* exit status 0 and an output file of some size, possibly empty
          /\ exists(fs, job[j].source_file)
          /\ \E size \in NewSizes :
                fs' = [fs EXCEPT ![temp_file(j)] = Encoded(fs, job[j].source_file, size)]
          /\ Goto(j, "evaluate")
    /\ UNCHANGED <<files, batchPc, processing, batch_stats, aggregated, progress,
                   summaries, enable_resize, enable_min_reduction, min_reduction, ev>>

\* remove the interim source, 4. Check Size, and the size comparison
Evaluate(j) ==
    /\ job[j].pc = "evaluate"
    /\ LET src == job[j].source_file
           fs1 == IF src # j THEN unlink_if_exists(fs, src) ELSE fs
       IN  /\ fs' = fs1
           /\ IF ~exists(fs1, temp_file(j)) \/ job[j].original_size = 0
              THEN Goto(j, "except")
              ELSE LET new_size == fs1[temp_file(j)].size
                   IN  job' = [job EXCEPT
                                 ![j].new_size = new_size,
                                 ![j].pc = IF replace_table[job[j].original_size, new_size,
                                                           enable_min_reduction, min_reduction]
                                           THEN "move" ELSE "skip"]
    /\ UNCHANGED <<files, batchPc, processing, batch_stats, aggregated, progress,
                   summaries, enable_resize, enable_min_reduction, min_reduction, ev>>

\* Move to final location: shutil.move(temp_file, output_file)
Move(j) ==
    /\ job[j].pc = "move"
    /\ IF exists(fs, temp_file(j))
       THEN /\ fs' = move(fs, temp_file(j), output_file(j))
            /\ Goto(j, IF is_png(j) THEN "exif_png" ELSE "check_backup")
       ELSE /\ fs' = fs
            /\ Goto(j, "except")
    /\ UNCHANGED <<files, batchPc, processing, batch_stats, aggregated, progress,
                   summaries, enable_resize, enable_min_reduction, min_reduction, ev>>

\* the else branch of `if should_replace`: temp_file.unlink(); replaced = False
Skip(j) ==
    /\ job[j].pc = "skip"
    /\ IF exists(fs, temp_file(j))
       THEN /\ fs' = unlink(fs, temp_file(j))
            /\ job' = [job EXCEPT ![j].pc = "finally", ![j].replaced = FALSE]
       ELSE /\ fs' = fs
            /\ Goto(j, "except")
    /\ UNCHANGED <<files, batchPc, processing, batch_stats, aggregated, progress,
                   summaries, enable_resize, enable_min_reduction, min_reduction, ev>>

\* PNG: exiftool sets the two date tags (return code ignored), then os.utime,
\* then the creation time (errors swallowed)
ExifPng(j) ==
    /\ job[j].pc = "exif_png"
    /\ LET out == output_file(j)
       IN  IF exists(fs, out)
           THEN /\ \E returncode \in {0, 1} :
                      fs' = IF returncode = 0 THEN [fs EXCEPT ![out].meta = DateTags]
                            ELSE fs
                /\ \/ \* os.utime returns; a creation-time failure is swallowed
                      \E ctime_fails \in BOOLEAN :
                         job' = [job EXCEPT ![j].pc = "unlink_png",
                                            ![j].ts_failed = ctime_fails]
                   \/ \* os.utime raises
                      job' = [job EXCEPT ![j].pc = "except", ![j].ts_failed = TRUE]
           ELSE /\ fs' = fs
                /\ Goto(j, "except")
    /\ UNCHANGED <<files, batchPc, processing, batch_stats, aggregated, progress,
                   summaries, enable_resize, enable_min_reduction, min_reduction, ev>>

\* Delete original PNG: file_path.unlink(); `replaced` is not assigned on this branch
UnlinkPng(j) ==
    /\ job[j].pc = "unlink_png"
    /\ IF exists(fs, j)
       THEN /\ fs' = unlink(fs, j)
            /\ Goto(j, "finally")
       ELSE /\ fs' = fs
            /\ Goto(j, "except")
    /\ UNCHANGED <<files, batchPc, processing, batch_stats, aggregated, progress,
                   summaries, enable_resize, enable_min_reduction, min_reduction, ev>>

\* JPEG: `if not metadata_file.exists()`: remove the output and raise
CheckBackup(j) ==
    /\ job[j].pc = "check_backup"
    /\ IF exists(fs, metadata_file(j))
       THEN /\ fs' = fs
            /\ Goto(j, "exiftool")
       ELSE /\ fs' = unlink_if_exists(fs, output_file(j))
            /\ Goto(j, "except")
    /\ UNCHANGED <<files, batchPc, processing, batch_stats, aggregated, progress,
                   summaries, enable_resize, enable_min_reduction, min_reduction, ev>>

\* JPEG: exiftool -tagsfromfile backup -all:all output; on return code 0 the
\* timestamps are set inside try/except and replaced = True
ExifTool(j) ==
    /\ job[j].pc = "exiftool"
    /\ LET out == output_file(j)
           meta == metadata_file(j)
       IN  \/ \* return code 0
              /\ exists(fs, out) /\ exists(fs, meta)
              /\ fs' = [fs EXCEPT ![out].meta = fs[meta].meta]
              /\ \E utime_fails \in BOOLEAN :
                    job' = [job EXCEPT ![j].pc = "finally", ![j].replaced = TRUE,
                                       ![j].ts_failed = utime_fails]
           \/ \* return code # 0
              /\ fs' = fs
              /\ Goto(j, "rollback")
    /\ UNCHANGED <<files, batchPc, processing, batch_stats, aggregated, progress,
                   summaries, enable_resize, enable_min_reduction, min_reduction, ev>>

\* Revert: shutil.copy2(metadata_file, output_file); raise
Rollback(j) ==
    /\ job[j].pc = "rollback"
    /\ fs' = IF exists(fs, metadata_file(j))
             THEN copy2(fs, metadata_file(j), output_file(j))
             ELSE fs
    /\ Goto(j, "except")
    /\ UNCHANGED <<files, batchPc, processing, batch_stats, aggregated, progress,
                   summaries, enable_resize, enable_min_reduction, min_reduction, ev>>

\* except Exception: remove temp_file if it exists; raise
Except(j) ==
    /\ job[j].pc = "except"
    /\ fs' = unlink_if_exists(fs, temp_file(j))
    /\ job' = [job EXCEPT ![j].pc = "finally", ![j].raised = TRUE]
    /\ UNCHANGED <<files, batchPc, processing, batch_stats, aggregated, progress,
                   summaries, enable_resize, enable_min_reduction, min_reduction, ev>>

\* finally: delete the metadata backup; then return the result or re-raise
Finally(j) ==
    /\ job[j].pc = "finally"
    /\ fs' = IF is_png(j) THEN fs ELSE unlink_if_exists(fs, metadata_file(j))
    /\ job' = [job EXCEPT
                 ![j].pc = "done",
                 ![j].original_size = 0,
                 ![j].new_size = 0,
                 ![j].source_file = NoPath,
                 ![j].replaced = FALSE,
                 ![j].result =
                     IF job[j].raised THEN NoResult
                     ELSE [original_size |-> job[j].original_size,
                           new_size |-> IF job[j].replaced THEN job[j].new_size
                                        ELSE job[j].original_size,
                           replaced |-> job[j].replaced]]
    /\ UNCHANGED <<files, batchPc, processing, batch_stats, aggregated, progress,
                   summaries, enable_resize, enable_min_reduction, min_reduction, ev>>

----------------------------------------------------------------------------
(* The scheduler: on_drop and process_batch *)

\* the files of every drop accepted so far
Dropped == UNION {files[t] : t \in Threads}

Batches == {b \in SUBSET (Candidates \ Dropped) :
               b # {} /\ Cardinality(Dropped \cup b) <= MaxFiles}

ZeroStats == [original_size |-> 0, new_size |-> 0, processed |-> 0, skipped |-> 0, errors |-> 0]

\* on_drop: refuse while self.processing is set, else start a process_batch
\* thread; the thread, not on_drop, sets self.processing
on_drop(dropped) ==
    /\ ~processing
    /\ dropped \cap Dropped = {}   \* bound of the model: a file is dropped at most once
    /\ \E t \in Threads :
          /\ batchPc[t] = "idle"
          /\ \A u \in Threads : u < t => batchPc[u] # "idle"
          /\ files' = [files EXCEPT ![t] = dropped]
          /\ batchPc' = [batchPc EXCEPT ![t] = "start"]
    /\ UNCHANGED <<fs, job, processing, batch_stats, aggregated, progress, summaries,
                   enable_resize, enable_min_reduction, min_reduction, ev>>

\* process_batch up to the submission of every file to the executor
process_batch(t) ==
    /\ batchPc[t] = "start"
    /\ processing' = TRUE
    /\ progress' = [progress EXCEPT ![t] = <<0>>]
    /\ batch_stats' = ZeroStats
    /\ job' = [p \in Candidates |->
                 IF p \in files[t] THEN [job[p] EXCEPT !.pc = "queued"] ELSE job[p]]
    /\ batchPc' = [batchPc EXCEPT ![t] = "collect"]
    /\ UNCHANGED <<fs, files, aggregated, summaries, enable_resize, enable_min_reduction,
                   min_reduction, ev>>

\* a loop that a failed future ends: the summary follows the first error
print_summary_on_error(t) ==
    /\ batchPc[t] = "collect"
    /\ \/ aggregated[t] = files[t]
       \/ \E j \in aggregated[t] : job[j].raised
    /\ summaries' = summaries + 1
    /\ processing' = FALSE
    /\ batchPc' = [batchPc EXCEPT ![t] = "finished"]
    /\ UNCHANGED <<fs, job, files, batch_stats, aggregated, progress, enable_resize,
                   enable_min_reduction, min_reduction, ev>>

\* the guarded update of batch_stats for one finished future
aggregate(stats, j) ==
    IF job[j].raised
    THEN [stats EXCEPT !.errors = @ + 1]
    ELSE LET result == job[j].result
         IN  IF result.replaced
             THEN [stats EXCEPT !.original_size = @ + result.original_size,
                                !.new_size = @ + result.new_size,
                                !.processed = @ + 1]
             ELSE [stats EXCEPT !.original_size = @ + result.original_size,
                                !.new_size = @ + result.new_size,
                                !.skipped = @ + 1]

\* one turn of `for future in as_completed(futures)`
Collect(t, j) ==
    /\ batchPc[t] = "collect"
    /\ j \in files[t] \ aggregated[t]
    /\ job[j].pc = "done"
    /\ batch_stats' = aggregate(batch_stats, j)
    /\ aggregated' = [aggregated EXCEPT ![t] = @ \cup {j}]
    /\ progress' = [progress EXCEPT
                      ![t] = Append(@, Cardinality({f \in files[t] : job[f].pc = "done"}))]
    /\ UNCHANGED <<fs, job, files, batchPc, processing, summaries, enable_resize,
                   enable_min_reduction, min_reduction, ev>>

\* the loop is exhausted: print_summary(total); self.processing = False
print_summary(t) ==
    /\ batchPc[t] = "collect"
    /\ aggregated[t] = files[t]
    /\ summaries' = summaries + 1
    /\ processing' = FALSE
    /\ batchPc' = [batchPc EXCEPT ![t] = "finished"]
    /\ UNCHANGED <<fs, job, files, batch_stats, aggregated, progress, enable_resize,
                   enable_min_reduction, min_reduction, ev>>

----------------------------------------------------------------------------
(* The specification of a batch *)

NoEval == [original_size |-> 0, new_size |-> 0, gate |-> FALSE, threshold |-> 0,
           decision |-> "none"]

Init ==
    /\ fs = [p \in Paths |-> IF p \in Candidates \cup Bystanders THEN Original(p) ELSE Absent]
    /\ job = [p \in Candidates |-> IdleJob]
    /\ files = [t \in Threads |-> {}]
    /\ batchPc = [t \in Threads |-> "idle"]
    /\ processing = FALSE
    /\ batch_stats = ZeroStats
    /\ aggregated = [t \in Threads |-> {}]
    /\ progress = [t \in Threads |-> <<>>]
    /\ summaries = 0
    /\ enable_resize \in BOOLEAN
    /\ enable_min_reduction = FALSE
    /\ min_reduction = DefaultThreshold
    /\ ev = NoEval

JobStep(j) ==
    \/ Start(j)
    \/ Prepare(j)
    \/ Encode(j)
    \/ Evaluate(j)
    \/ Move(j)
    \/ Skip(j)
    \/ ExifPng(j)
    \/ UnlinkPng(j)
    \/ CheckBackup(j)
    \/ ExifTool(j)
    \/ Rollback(j)
    \/ Except(j)
    \/ Finally(j)

Next ==
    \/ \E dropped \in Batches : on_drop(dropped)
    \/ \E t \in Threads : process_batch(t)
    \/ \E j \in Candidates : JobStep(j)
    \/ \E t \in Threads, j \in Candidates : Collect(t, j)
    \/ \E t \in Threads : print_summary(t)

Spec == Init /\ [][Next]_vars

\* the pool's workers and the batch thread are scheduled by the operating system,
\* and every external tool run returns: each enabled step is eventually taken
FairSpec ==
    /\ Spec
    /\ \A t \in Threads : WF_vars(process_batch(t)) /\ WF_vars(print_summary(t))
    /\ \A j \in Candidates : WF_vars(JobStep(j))
    /\ \A t \in Threads, j \in Candidates : WF_vars(Collect(t, j))

----------------------------------------------------------------------------
(* One drop of every image of the directory *)

FullBatchNext ==
    \/ on_drop(Candidates)
    \/ \E t \in Threads : process_batch(t)
    \/ \E j \in Candidates : JobStep(j)
    \/ \E t \in Threads, j \in Candidates : Collect(t, j)
    \/ \E t \in Threads : print_summary(t)

FullBatchSpec == Init /\ [][FullBatchNext]_vars

----------------------------------------------------------------------------
(* predict_safe_distance.  Distances are counted in units of 1/10000;         *)
(* edge_density in 1/1000, texture in 1/100, noise in 1/10 and variance in    *)
(* units, so that on the drawn inputs every product of the code is a whole    *)
(* number of distance units: 0.04 per unit of texture is 4 per 1/100, and 3.5 *)
(* per unit of edge_density is 35 per 1/1000.                                 *)

Min(a, b) == IF a < b THEN a ELSE b

Max(a, b) == IF a > b THEN a ELSE b

\* the distance accumulated by rules 2 to 5, before the variance rule and the limits
photo_distance(stats) ==
    LET baseline == 6500
        textured == IF stats.texture > 300
                    THEN baseline + (stats.texture - 300) * 4
                    ELSE baseline
        braked == IF stats.edge_density > 100
                  THEN textured - (stats.edge_density - 100) * 35
                  ELSE textured
    IN  IF stats.noise > 50 THEN braked + 2000 ELSE braked

\* a function that returns the accumulated distance without the limits
predict_without_limits(stats) ==
    IF stats.noise < 5 THEN 5500
    ELSE IF stats.variance < 600 THEN 6500
    ELSE photo_distance(stats)

\* a function that applies the variance rule before the screenshot rule
predict_variance_first(stats) ==
    IF stats.variance < 600 THEN 6500
    ELSE IF stats.noise < 5 THEN 5500
    ELSE Max(5500, Min(photo_distance(stats), 22000))

\* a function whose variance rule only caps the accumulated distance
predict_variance_cap(stats) ==
    IF stats.noise < 5 THEN 5500
    ELSE IF stats.variance < 600 THEN Max(5500, Min(photo_distance(stats), 6500))
    ELSE Max(5500, Min(photo_distance(stats), 22000))

predict_safe_distance(stats) ==
    IF stats.noise < 5 THEN 5500
    ELSE IF stats.variance < 600 THEN 6500
    ELSE Max(5500, Min(photo_distance(stats), 22000))

\* drawn ImageStats values, on both sides of every threshold of the function
EdgeValues == {0, 100, 101, 500, 900, 1000}

TextureValues == {0, 300, 301, 1000, 5000}

VarianceValues == {0, 500, 599, 600, 5000}

NoiseValues == {0, 4, 5, 50, 51, 80}

PredictInit ==
    /\ fs = [p \in Paths |-> IF p \in Candidates \cup Bystanders THEN Original(p) ELSE Absent]
    /\ job = [p \in Candidates |-> IdleJob]
    /\ files = [t \in Threads |-> {}]
    /\ batchPc = [t \in Threads |-> "idle"]
    /\ processing = FALSE
    /\ batch_stats = ZeroStats
    /\ aggregated = [t \in Threads |-> {}]
    /\ progress = [t \in Threads |-> <<>>]
    /\ summaries = 0
    /\ enable_resize = FALSE
    /\ enable_min_reduction = FALSE
    /\ min_reduction = DefaultThreshold
    /\ \E e \in EdgeValues, t \in TextureValues, v \in VarianceValues, n \in NoiseValues :
          ev = [stats |-> [edge_density |-> e, texture |-> t, variance |-> v, noise |-> n],
                distance |-> 0, computed |-> FALSE]

\* predicted_distance = predict_safe_distance(stats)
Predict ==
    /\ ~ev.computed
    /\ ev' = [ev EXCEPT !.distance = predict_safe_distance(ev.stats), !.computed = TRUE]
    /\ UNCHANGED <<fs, job, files, batchPc, processing, batch_stats, aggregated, progress,
                   summaries, enable_resize, enable_min_reduction, min_reduction>>

PredictNext == Predict

PredictSpec == PredictInit /\ [][PredictNext]_vars

----------------------------------------------------------------------------
(* The size comparison alone, applied to drawn sizes and settings *)

EvalInit ==
    /\ fs = [p \in Paths |-> IF p \in Candidates \cup Bystanders THEN Original(p) ELSE Absent]
    /\ job = [p \in Candidates |-> IdleJob]
    /\ files = [t \in Threads |-> {}]
    /\ batchPc = [t \in Threads |-> "idle"]
    /\ processing = FALSE
    /\ batch_stats = ZeroStats
    /\ aggregated = [t \in Threads |-> {}]
    /\ progress = [t \in Threads |-> <<>>]
    /\ summaries = 0
    /\ enable_resize = FALSE
    /\ enable_min_reduction \in BOOLEAN
    /\ min_reduction \in MinThreshold..MaxThreshold
    /\ \E o \in EvalOriginals, n \in EvalNews :
          ev = [original_size |-> o, new_size |-> n, gate |-> enable_min_reduction,
                threshold |-> min_reduction, decision |-> "none"]

\* lines 361 to 385 on the sizes of ev
EvaluateSizes ==
    /\ ev.decision = "none"
    /\ ev' = [ev EXCEPT !.decision =
                 IF should_replace(ev.original_size, ev.new_size, enable_min_reduction,
                                   min_reduction)
                 THEN "COMMIT" ELSE "SKIP"]
    /\ UNCHANGED <<fs, job, files, batchPc, processing, batch_stats, aggregated, progress,
                   summaries, enable_resize, enable_min_reduction, min_reduction>>

EvalNext == EvaluateSizes

EvalSpec == EvalInit /\ [][EvalNext]_vars

----------------------------------------------------------------------------
(* Claims *)

Completes(j) == job[j].pc # "done" /\ job'[j].pc = "done"

\* the newly encoded content of job j's input, committed with its metadata
Committed(j) ==
    LET c == fs[output_file(j)]
    IN  /\ c.kind = "enc"
        /\ c.of = job[j].pre.of
        /\ c.meta = IF is_png(j) THEN DateTags ELSE job[j].pre.meta

\* C1: when a job completes, on every exit, the file at its input path is
\* byte-identical to its content before the job, or the logical original path
\* holds the fully committed new content with metadata restored; it is never
\* absent and never new content without metadata.
C1_OriginalOrCommitted ==
    [][\A j \in Candidates :
          Completes(j) => (fs'[j] = job'[j].pre \/ Committed(j)')]_vars

\* C2: a job that returns replaced == false returns new_size == original_size
\* and leaves its input file in place, byte-identical to its pre-job state.
C2_NotReplacedMeansUntouched ==
    [][\A j \in Candidates :
          (Completes(j) /\ ~job'[j].raised /\ ~job'[j].result.replaced)
              => /\ job'[j].result.new_size = job'[j].result.original_size
                 /\ fs'[j] = job'[j].pre]_vars

\* C3: when process_batch reaches print_summary, processed + skipped + errors
\* equals the number of files submitted to that batch.
C3_CountersAddUp ==
    [][\A t \in Threads :
          (batchPc[t] = "collect" /\ batchPc'[t] = "finished")
              => batch_stats.processed + batch_stats.skipped + batch_stats.errors
                     = Cardinality(files[t])]_vars

RECURSIVE SumOriginal(_)
SumOriginal(S) ==
    IF S = {} THEN 0
    ELSE LET j == CHOOSE x \in S : TRUE
         IN  job[j].result.original_size + SumOriginal(S \ {j})

RECURSIVE SumNew(_)
SumNew(S) ==
    IF S = {} THEN 0
    ELSE LET j == CHOOSE x \in S : TRUE
         IN  job[j].result.new_size + SumNew(S \ {j})

\* C4: under every interleaving, while a batch collects its futures batch_stats
\* is exactly the once-per-task aggregation of the completed tasks collected so
\* far: each successful task contributes its sizes and one of
\* processed/skipped, each failed task contributes one error and nothing else.
C4_OneUpdatePerTask ==
    \A t \in Threads :
        batchPc[t] = "collect" =>
            LET ok == {j \in aggregated[t] : ~job[j].raised}
                failed == {j \in aggregated[t] : job[j].raised}
            IN  /\ batch_stats.errors = Cardinality(failed)
                /\ batch_stats.processed = Cardinality({j \in ok : job[j].result.replaced})
                /\ batch_stats.skipped = Cardinality({j \in ok : ~job[j].result.replaced})
                /\ batch_stats.original_size = SumOriginal(ok)
                /\ batch_stats.new_size = SumNew(ok)

\* C5: a failing job never aborts its batch: the summary of a batch is emitted
\* at most once, only when every task submitted to it has completed and been
\* aggregated, and once a batch thread has started its summary is eventually
\* emitted.
C5_BatchRunsToSummary ==
    /\ [](/\ summaries = Cardinality({t \in Threads : batchPc[t] = "finished"})
          /\ \A t \in Threads :
                batchPc[t] = "finished" => /\ aggregated[t] = files[t]
                                           /\ \A j \in files[t] : job[j].pc = "done")
    /\ \A t \in Threads : (batchPc[t] = "start") ~> (batchPc[t] = "finished")

\* the summary of a batch in which one job failed and another returned a result
C5_Witness ==
    \E t \in Threads :
        /\ batchPc[t] = "finished"
        /\ \E j \in files[t] : job[j].raised
        /\ \E j \in files[t] : ~job[j].raised

\* C6: SKIP exactly when 100*(original-new)/original <= 5, or the gate is on
\* and that reduction is below the threshold; COMMIT otherwise.
C6_DecisionRule ==
    ev.decision # "none" =>
        LET saved == 100 * (ev.original_size - ev.new_size)
            skip == \/ saved <= 5 * ev.original_size
                    \/ ev.gate /\ saved < ev.threshold * ev.original_size
        IN  ev.decision = IF skip THEN "SKIP" ELSE "COMMIT"

\* C7: a job that takes the SKIP branch deletes the temporary file, changes no
\* other file, and returns replaced == false.
C7_SkipLeavesOriginal ==
    [][\A j \in Candidates :
          (job[j].pc = "skip" /\ job'[j].pc # "skip")
              => /\ ~exists(fs', temp_file(j))
                 /\ \A p \in Paths \ {temp_file(j)} : fs'[p] = fs[p]
                 /\ job'[j].pc = "finally"
                 /\ ~job'[j].raised /\ ~job'[j].replaced]_vars

\* C8: when the metadata copy fails after a JPEG commit, the rollback leaves
\* the bytes the job backed up before encoding on the final path, and the job
\* ends as an error.
C8_RollbackRestoresBackup ==
    [][\A j \in Candidates :
          (job[j].pc = "rollback" /\ job'[j].pc # "rollback")
              => /\ fs'[output_file(j)] = job[j].pre
                 /\ job'[j].pc = "except"]_vars

\* C9: once a job has finished, on every exit path, neither its backup file
\* nor its interim prepared-source file exists.
C9_NoBackupOrInterimLeft ==
    [][\A j \in Candidates :
          Completes(j) => /\ ~exists(fs', metadata_file(j))
                          /\ ~exists(fs', png_temp_file(j))
                          /\ ~exists(fs', resized_file(j))]_vars

\* C10: when the Encoder has left no output file or an empty one, the job goes
\* to its error exit and nothing is moved onto the destination.
C10_EmptyOutputIsError ==
    [][\A j \in Candidates :
          (/\ job[j].pc = "evaluate" /\ job'[j].pc # "evaluate"
           /\ (~exists(fs, temp_file(j)) \/ fs[temp_file(j)].size = 0))
              => job'[j].pc = "except"]_vars

\* C11: a failure to restore the timestamps or the creation time of a
\* committed file is only a warning, for JPEG and PNG inputs alike: the job
\* returns a result with replaced == true and is not an error.
C11_TimestampFailureIsWarning ==
    [][\A j \in Candidates :
          (Completes(j) /\ job'[j].ts_failed)
              => ~job'[j].raised /\ job'[j].result.replaced]_vars

\* the paths job j writes besides its input: destination, backup,
\* temporary output and interim source
JobPaths(j) ==
    IF is_png(j)
    THEN {output_file(j), temp_file(j), png_temp_file(j)}
    ELSE {output_file(j), metadata_file(j), temp_file(j), resized_file(j)}

\* C12: the destination, backup, temporary-output and interim paths of any two
\* distinct inputs of one batch are pairwise disjoint.
C12_JobPathsDisjoint ==
    \A t \in Threads :
        \A j \in files[t], k \in files[t] : j # k => JobPaths(j) \cap JobPaths(k) = {}

\* C13: predict_safe_distance returns a value in [0.55, 2.2].
C13_DistanceInRange ==
    ev.computed => 5500 <= ev.distance /\ ev.distance <= 22000

\* a photo whose accumulated distance is above 2.2, and one whose is below 0.55
C13_Witness ==
    /\ ev.computed
    /\ ev.stats.noise >= 5 /\ ev.stats.variance >= 600
    /\ photo_distance(ev.stats) > 22000
    /\ ev.distance = 22000

\* C14: with noise < 0.5 the result is exactly 0.55, whatever the other values.
C14_ScreenshotDistance ==
    (ev.computed /\ ev.stats.noise < 5) => ev.distance = 5500

\* a screenshot with low variance, texture and edges
C14_Witness ==
    /\ ev.computed
    /\ ev.stats.noise < 5 /\ ev.stats.variance < 600
    /\ ev.stats.texture > 300 /\ ev.stats.edge_density > 100

C16_BackupPresentWhenNeeded ==
    [][\A j \in Candidates :
          (/\ ~is_png(j)
           /\ job[j].pc \in {"move", "exiftool", "rollback"}
           /\ job'[j].pc # job[j].pc)
              => fs[metadata_file(j)] = job[j].pre]_vars

\* C17: in no reachable state is the original of a PNG input absent while the
\* destination .jpg file is absent too.
C17_PngNeverLostWithoutOutput ==
    \A j \in Candidates :
        (is_png(j) /\ ~exists(fs, j)) => exists(fs, output_file(j))

\* C18: after each aggregation the progress value emitted is the number of
\* aggregated results over the total: the values emitted after the initial 0
\* are 1/N, 2/N, ..., in that order.
C18_ProgressCountsAggregated ==
    \A t \in Threads :
        batchPc[t] \in {"collect", "finished"} =>
            progress[t] = [i \in 1..(Cardinality(aggregated[t]) + 1) |-> i - 1]

\* C19: in photo mode (noise >= 0.5) the result lies between 0.75 and 2.2; no
\* photo-mode result is below the photo floor.
C19_PhotoRange ==
    (ev.computed /\ ev.stats.noise >= 5) => 7500 <= ev.distance /\ ev.distance <= 22000

\* C20: with noise >= 0.5 and variance < 600, the result is less than or equal
\* to the result for the same edge_density, texture and noise with variance >= 600.
C20_LowVarianceOnlyLowers ==
    (ev.computed /\ ev.stats.noise >= 5 /\ ev.stats.variance < 600)
        => ev.distance <= predict_safe_distance([ev.stats EXCEPT !.variance = 600])

\* C21: at most one batch executes at any time: no process_batch thread is
\* started while an earlier one has been started and has not finished.
C21_OneBatchAtATime ==
    Cardinality({t \in Threads : batchPc[t] \in {"start", "collect"}}) <= 1

\* C22: every file that existed before the drops and is not an input of any
\* batch stays present and byte-identical.
C22_ForeignFilesUntouched ==
    \A p \in (Candidates \cup Bystanders) \ Dropped : fs[p] = Original(p)

\* a newly encoded file made from the bytes job j read from its input
EncodedBy(c, j) == c.kind = "enc" /\ c.of = job[j].pre.of

\* C23: a job that ends in error leaves no newly encoded file of its own
\* behind: neither at its temporary output path nor, for a PNG input whose
\* original is kept, at the destination .jpg path.
C23_ErrorLeavesNoOutput ==
    [][\A j \in Candidates :
          (Completes(j) /\ job'[j].raised)
              => /\ ~EncodedBy(fs'[temp_file(j)], j)
                 /\ (is_png(j) /\ exists(fs', j)) => ~EncodedBy(fs'[output_file(j)], j)]_vars

====
